---- MODULE Spec2Model ----
(***************************************************************************)
(* Tourism agent: query interpretation (intent keywords, location          *)
(* extraction), the HTTP transport helper with retries, the geocoding,     *)
(* weather and attraction agents, and the orchestrator process_query.      *)
(*                                                                         *)
(* Text is a sequence of one-character strings, so that the regular        *)
(* expressions, str.split, str.strip and str.lower of the source are       *)
(* computed character by character.                                        *)
(***************************************************************************)
EXTENDS Integers, Sequences, FiniteSets, TLC

\* ------------------------------------------------------------------ bounds
\* Generated queries are 1..MaxWords vocabulary tokens joined by one space.
MaxWords == 3

\* make_api_request is studied for max_retries in 0..MaxRetriesBound.
MaxRetriesBound == 3

\* get_tourist_attractions is studied for limit in 1..MaxLimit ...
MaxLimit == 2

\* ... against every list of at most MaxHeld elements held by the service.
MaxHeld == 4

\* -------------------------------------------------------------- characters
UpperSeq ==
  <<"A","B","C","D","E","F","G","H","I","J","K","L","M",
    "N","O","P","Q","R","S","T","U","V","W","X","Y","Z">>

LowerSeq ==
  <<"a","b","c","d","e","f","g","h","i","j","k","l","m",
    "n","o","p","q","r","s","t","u","v","w","x","y","z">>

AsciiUpper == {UpperSeq[i] : i \in 1..26}

AsciiLower == {LowerSeq[i] : i \in 1..26}

\* str.isspace / the regex class \s, for the characters a TLA+ string can hold
WS == {" ", "\t", "\n", "\r", "\f"}

IsLetter(c) == c \in AsciiUpper \cup AsciiLower

\* str.lower on one character
ToLower(c) ==
  IF c \in AsciiUpper THEN LowerSeq[CHOOSE i \in 1..26 : UpperSeq[i] = c] ELSE c

\* str.upper on one character
ToUpper(c) ==
  IF c \in AsciiLower THEN UpperSeq[CHOOSE i \in 1..26 : LowerSeq[i] = c] ELSE c

\* str.lower
Lower(s) == [i \in 1..Len(s) |-> ToLower(s[i])]

\* str.isupper on one character
IsUpper(c) == c \in AsciiUpper

\* str.strip
Strip(s) ==
  LET keep == {i \in 1..Len(s) : s[i] \notin WS}
  IN  IF keep = {} THEN <<>>
      ELSE LET a == CHOOSE i \in keep : \A j \in keep : i <= j
               b == CHOOSE i \in keep : \A j \in keep : j <= i
           IN  SubSeq(s, a, b)

\* End of the whitespace-free token starting at i
TokenEnd(s, i) ==
  CHOOSE e \in i..Len(s) :
    /\ \A m \in i..e : s[m] \notin WS
    /\ e = Len(s) \/ s[e + 1] \in WS

RECURSIVE SplitFrom(_, _)
SplitFrom(s, i) ==
  IF i > Len(s) THEN <<>>
  ELSE IF s[i] \in WS THEN SplitFrom(s, i + 1)
  ELSE <<SubSeq(s, i, TokenEnd(s, i))>> \o SplitFrom(s, TokenEnd(s, i) + 1)

\* str.split() with no argument
Split(s) == SplitFrom(s, 1)

RECURSIVE JoinFrom(_, _)
JoinFrom(ws, i) ==
  IF i > Len(ws) THEN <<>>
  ELSE IF i = Len(ws) THEN ws[i]
  ELSE ws[i] \o <<" ">> \o JoinFrom(ws, i + 1)

\* ' '.join(words)
Join(ws) == JoinFrom(ws, 1)

\* needle in hay (substring test)
Contains(hay, needle) ==
  \E i \in 1..(Len(hay) - Len(needle) + 1) :
    SubSeq(hay, i, i + Len(needle) - 1) = needle

\* Optional[str]
None == [found |-> FALSE, loc |-> <<>>]

Some(s) == [found |-> TRUE, loc |-> s]

\* ------------------------------------------------------- analyze_intent
weather_keywords ==
  <<
    <<"w", "e", "a", "t", "h", "e", "r">>,
    <<"t", "e", "m", "p", "e", "r", "a", "t", "u", "r", "e">>,
    <<"r", "a", "i", "n">>,
    <<"f", "o", "r", "e", "c", "a", "s", "t">>,
    <<"h", "o", "t">>,
    <<"c", "o", "l", "d">>,
    <<"c", "l", "i", "m", "a", "t", "e">>,
    <<"t", "e", "m", "p">> >>

places_keywords ==
  <<
    <<"v", "i", "s", "i", "t">>,
    <<"p", "l", "a", "c", "e", "s">>,
    <<"a", "t", "t", "r", "a", "c", "t", "i", "o", "n", "s">>,
    <<"s", "e", "e">>,
    <<"t", "o", "u", "r">>,
    <<"t", "o", "u", "r", "i", "s", "t">>,
    <<"s", "i", "g", "h", "t", "s">>,
    <<"d", "e", "s", "t", "i", "n", "a", "t", "i", "o", "n">>,
    <<"s", "p", "o", "t", "s">>,
    <<"t", "h", "i", "n", "g", "s", " ", "t", "o", " ", "d", "o">> >>

\* analyze_intent without its default to places
analyze_intent_no_default(user_input) ==
  [weather |-> \E i \in 1..Len(weather_keywords) :
                 Contains(Lower(user_input), weather_keywords[i]),
   places  |-> \E i \in 1..Len(places_keywords) :
                 Contains(Lower(user_input), places_keywords[i])]

analyze_intent(user_input) ==
  LET user_input_lower == Lower(user_input)
      wants_weather ==
        \E i \in 1..Len(weather_keywords) :
          Contains(user_input_lower, weather_keywords[i])
      wants_places ==
        \E i \in 1..Len(places_keywords) :
          Contains(user_input_lower, places_keywords[i])
  IN  [weather |-> wants_weather,
       places  |-> IF ~wants_weather /\ ~wants_places THEN TRUE
                   ELSE wants_places]

\* ----------------------------------------------------- extract_location
\* (?:going to|visit|trip to|travel to)
patterns1 ==
  <<
    <<"g", "o", "i", "n", "g", " ", "t", "o">>,
    <<"v", "i", "s", "i", "t">>,
    <<"t", "r", "i", "p", " ", "t", "o">>,
    <<"t", "r", "a", "v", "e", "l", " ", "t", "o">> >>

\* (?:in|at)
patterns2 ==
  <<
    <<"i", "n">>,
    <<"a", "t">> >>

\* the connector words of (?:\,|\.|$|\s+let|\s+what|\s+and)
connectors ==
  <<
    <<"l", "e", "t">>,
    <<"w", "h", "a", "t">>,
    <<"a", "n", "d">> >>

stopwords ==
  {
    <<"i">>,
    <<"i", "'", "m">>,
    <<"l", "e", "t", "'", "s">>,
    <<"w", "h", "a", "t">>,
    <<"i", "s">>,
    <<"t", "h", "e">>,
    <<"a", "n", "d">> }

\* [a-zA-Z\s]
LocClass == AsciiUpper \cup AsciiLower \cup WS

\* w occurs in s at position i
StartsAt(s, i, w) ==
  /\ i + Len(w) - 1 <= Len(s)
  /\ SubSeq(s, i, i + Len(w) - 1) = w

\* First position >= j holding no whitespace (Len(s)+1 when there is none)
WsEnd(s, j) ==
  CHOOSE q \in j..(Len(s) + 1) :
    /\ q = Len(s) + 1 \/ s[q] \notin WS
    /\ \A m \in j..(q - 1) : s[m] \in WS

\* $ without re.MULTILINE: the end, or just before a final newline
AtEnd(s, p) == p = Len(s) + 1 \/ (p = Len(s) /\ s[p] = "\n")

\* (?:\,|\.|$|\s+let|\s+what|\s+and) matches at p
Terminator(s, p) ==
  \/ p <= Len(s) /\ s[p] \in {",", "."}
  \/ AtEnd(s, p)
  \/ /\ p <= Len(s)
     /\ s[p] \in WS
     /\ \E c \in 1..Len(connectors) : StartsAt(s, WsEnd(s, p), connectors[c])

\* Lengths n of a group ([A-Z][a-zA-Z\s]+?) at k that a terminator follows
CaptureLens(s, k) ==
  {n \in 2..(Len(s) - k + 1) :
     /\ \A m \in (k + 1)..(k + n - 1) : s[m] \in LocClass
     /\ Terminator(s, k + n)}

\* GroupStart with the patterns compiled with re.IGNORECASE
GroupStart_ignorecase(s, i, w) ==
  IF ~StartsAt(Lower(s), i, w) THEN 0
  ELSE LET j == i + Len(w)
       IN  IF j > Len(s) \/ s[j] \notin WS THEN 0
           ELSE LET k == WsEnd(s, j)
                IN  IF k <= Len(s) /\ IsLetter(s[k]) /\ CaptureLens(s, k) # {}
                    THEN k ELSE 0

\* Start of the group when phrase w, then \s+, then [A-Z] match at i (0: no)
GroupStart(s, i, w) ==
  IF ~StartsAt(s, i, w) THEN 0
  ELSE LET j == i + Len(w)
       IN  IF j > Len(s) \/ s[j] \notin WS THEN 0
           ELSE LET k == WsEnd(s, j)
                IN  IF k <= Len(s) /\ s[k] \in AsciiUpper /\ CaptureLens(s, k) # {}
                    THEN k ELSE 0

\* The lazy group: the shortest capture a terminator follows
Group(s, k) ==
  LET n == CHOOSE x \in CaptureLens(s, k) : \A y \in CaptureLens(s, k) : x <= y
  IN  SubSeq(s, k, k + n - 1)

\* re.search(pattern, s).group(1), None when there is no match: the leftmost
\* match, and at one position the first alternative of the phrase list
RegexSearch(phrases, s) ==
  LET hits == {i \in 1..Len(s) :
                 \E w \in 1..Len(phrases) : GroupStart(s, i, phrases[w]) # 0}
  IN  IF hits = {} THEN None
      ELSE LET i == CHOOSE x \in hits : \A y \in hits : x <= y
               w == CHOOSE x \in 1..Len(phrases) :
                      /\ GroupStart(s, i, phrases[x]) # 0
                      /\ \A y \in 1..(x - 1) : GroupStart(s, i, phrases[y]) = 0
           IN  Some(Group(s, GroupStart(s, i, phrases[w])))

\* The run of capitalised words starting at word i, joined by spaces
CapRun(words, i) ==
  LET stop == {j \in (i + 1)..Len(words) : ~IsUpper(words[j][1])}
      last == IF stop = {} THEN Len(words)
              ELSE (CHOOSE x \in stop : \A y \in stop : x <= y) - 1
  IN  Join(SubSeq(words, i, last))

\* Word i starts a candidate location of the fallback scan
Candidate(words, i) ==
  /\ IsUpper(words[i][1])
  /\ Lower(words[i]) \notin stopwords
  /\ Len(CapRun(words, i)) > 2

FallbackLocation(user_input) ==
  LET words == Split(user_input)
      cands == {i \in 1..Len(words) : Candidate(words, i)}
  IN  IF cands = {} THEN None
      ELSE Some(CapRun(words, CHOOSE x \in cands : \A y \in cands : x <= y))

\* A pattern's location: the stripped group, kept only when longer than 2
PatternLocation(phrases, user_input) ==
  LET m == RegexSearch(phrases, user_input)
  IN  IF m.found /\ Len(Strip(m.loc)) > 2 THEN Some(Strip(m.loc)) ELSE None

extract_location(user_input) ==
  IF Len(Strip(user_input)) < 5 THEN None
  ELSE IF PatternLocation(patterns1, user_input).found
       THEN PatternLocation(patterns1, user_input)
  ELSE IF PatternLocation(patterns2, user_input).found
       THEN PatternLocation(patterns2, user_input)
  ELSE FallbackLocation(user_input)

\* ------------------------------------------------------------ query texts
\* Tokens the generated queries are built from
Vocab ==
  <<
    <<"i", "n">>,
    <<"a", "t">>,
    <<"v", "i", "s", "i", "t">>,
    <<"G", "o", "a">>,
    <<"g", "o", "a">>,
    <<"R", "i", "o", ",">>,
    <<"a", "n", "d">>,
    <<"W", "h", "a", "t", "'", "s">>,
    <<"h", "o", "t">>,
    <<"T", "o">>,
    <<"g", "o", "A">>,
    <<"R", "a", "i", "n">>,
    <<"t", "h", "e">> >>

\* Queries given in full
ExampleTexts ==
  {
    <<"W", "h", "a", "t", "'", "s", " ", "t", "h", "e", " ", "w", "e", "a", "t", "h", "e", "r", " ", "i", "n", " ", "T", "o", "k", "y", "o", "?">>,
    <<"I", "'", "m", " ", "g", "o", "i", "n", "g", " ", "t", "o", " ", "B", "a", "n", "g", "a", "l", "o", "r", "e", ",", " ", "l", "e", "t", "'", "s", " ", "p", "l", "a", "n", " ", "m", "y", " ", "t", "r", "i", "p">>,
    <<"I", "'", "m", " ", "v", "i", "s", "i", "t", "i", "n", "g", " ", "L", "o", "n", "d", "o", "n", ",", " ", "w", "h", "a", "t", " ", "a", "r", "e", " ", "t", "h", "e", " ", "p", "l", "a", "c", "e", "s", " ", "I", " ", "c", "a", "n", " ", "v", "i", "s", "i", "t", "?">>,
    <<"T", "e", "l", "l", " ", "m", "e", " ", "a", "b", "o", "u", "t", " ", "N", "e", "w", " ", "Y", "o", "r", "k", " ", "w", "e", "a", "t", "h", "e", "r", " ", "a", "n", "d", " ", "t", "o", "u", "r", "i", "s", "t", " ", "s", "p", "o", "t", "s">>,
    <<"t", "r", "i", "p", " ", "t", "o", " ", "N", "o", "w", "h", "e", "r", "e", "i", "s", "t", "a", "n">>,
    <<" ", " ", "G", "o", "a", " ">>,
    <<"i", "n", " ", " ", "T", "o", "k", "\n">>,
    <<"t", "r", "a", "v", "e", "l", " ", "t", "o", " ", "G", "o", "a", " ", "B", "e", "a", "c", "h", " ", "w", "h", "a", "t">>,
    <<"G", "o">> }

WordSeqs == UNION {[1..n -> 1..Len(Vocab)] : n \in 1..MaxWords}

GeneratedTexts == {Join([i \in 1..Len(ws) |-> Vocab[ws[i]]]) : ws \in WordSeqs}

Texts == ExampleTexts \cup GeneratedTexts

\* ------------------------------------------------------------ Python values
\* A parsed JSON value (and the Python object it becomes), tagged by type.
\* Strings are character sequences; a dict is a function on its keys.
JNull == [t |-> "null"]

JBool(b) == [t |-> "bool", b |-> b]

JNum(n) == [t |-> "num", n |-> n]

JStr(s) == [t |-> "str", s |-> s]

JList(xs) == [t |-> "list", items |-> xs]

JDict(d) == [t |-> "dict", d |-> d]

EmptyDict == [k \in {} |-> JNull]

\* bool(x): None, False, 0, '', [] and {} are false
Truthy(j) ==
  CASE j.t = "null" -> FALSE
    [] j.t = "bool" -> j.b
    [] j.t = "num"  -> j.n # 0
    [] j.t = "str"  -> Len(j.s) > 0
    [] j.t = "list" -> Len(j.items) > 0
    [] j.t = "dict" -> DOMAIN j.d # {}

\* The value of an expression: a result, or the exception it raises
Ok(v) == [ok |-> TRUE, val |-> v]

Raise(e) == [ok |-> FALSE, exc |-> e]

\* obj.get(key, default): only a dict has the method
DictGet(j, key, default) ==
  IF j.t # "dict" THEN Raise("AttributeError")
  ELSE IF key \in DOMAIN j.d THEN Ok(j.d[key]) ELSE Ok(default)

\* A message is the sequence of the fragments an f-string or += puts together
Lit(s) == [k |-> "lit", lit |-> s]

Txt(cs) == [k |-> "txt", txt |-> cs]

Num(n) == [k |-> "num", num |-> n]

\* ------------------------------------------------------ make_api_request
\* The default of the max_retries parameter
DefaultMaxRetries == 3

\* Backoff with the wait counted from 0: time.sleep(1 * attempt)
Backoff_from_zero(attempt) == 1 * attempt

\* time.sleep(1 * (attempt + 1)), in seconds
Backoff(attempt) == 1 * (attempt + 1)

\* str.upper
Upper(s) == [i \in 1..Len(s) |-> ToUpper(s[i])]

GET == <<"G", "E", "T">>

POST == <<"P", "O", "S", "T">>

\* response.raise_for_status() raises HTTPError
RaisesForStatus(status) == 400 <= status /\ status < 600

Success(data) == [returned |-> TRUE, success |-> TRUE, data |-> data]

Failure(msg) == [returned |-> TRUE, success |-> FALSE, error |-> msg]

NoEnvelope == [returned |-> FALSE]

TimeoutMessage == <<Lit("Request timed out. Please try again.")>>

ConnectionMessage ==
  <<Lit("Could not connect to the server. Please check your internet connection.")>>

HTTPErrorMessage(status) == <<Lit("HTTP error occurred: "), Num(status)>>

UnexpectedMessage(e) == <<Lit("An unexpected error occurred: "), Lit(e)>>

UnsupportedMessage(method) == <<Lit("Unsupported HTTP method: "), Txt(method)>>

MaxRetriesMessage == <<Lit("Maximum retry attempts reached")>>

\* Whether the loop body issues a request for this method
IssuesRequest(method) == Upper(method) \in {GET, POST}

\* A timeout or connection failure of attempt number `attempt` (from 0)
\* RetryOrFail that also waits and goes round after the last attempt
RetryOrFail_after_last(attempt, max_retries, msg) ==
  IF attempt < max_retries
  THEN [envelope |-> NoEnvelope, attempt |-> attempt + 1,
        slept |-> <<Backoff(attempt)>>]
  ELSE [envelope |-> Failure(msg), attempt |-> attempt, slept |-> <<>>]

RetryOrFail(attempt, max_retries, msg) ==
  IF attempt < max_retries - 1
  THEN [envelope |-> NoEnvelope, attempt |-> attempt + 1,
        slept |-> <<Backoff(attempt)>>]
  ELSE [envelope |-> Failure(msg), attempt |-> attempt, slept |-> <<>>]

Return(env, attempt) == [envelope |-> env, attempt |-> attempt, slept |-> <<>>]

\* One pass through the body of `for attempt in range(max_retries)`, given
\* what the network does with the request (o), or the return after the loop
LoopIteration(method, max_retries, attempt, o) ==
  IF attempt >= max_retries THEN Return(Failure(MaxRetriesMessage), attempt)
  ELSE IF ~IssuesRequest(method)
       THEN Return(Failure(UnsupportedMessage(method)), attempt)
  ELSE CASE o.kind = "timeout" ->
              RetryOrFail(attempt, max_retries, TimeoutMessage)
         [] o.kind = "connection" ->
              RetryOrFail(attempt, max_retries, ConnectionMessage)
         [] o.kind = "exception" ->
              Return(Failure(UnexpectedMessage(o.text)), attempt)
         [] o.kind = "response" ->
              IF RaisesForStatus(o.status)
              THEN Return(Failure(HTTPErrorMessage(o.status)), attempt)
              ELSE Return(Success(o.body), attempt)

\* ------------------------------------------------------------ float(x)
\* Numbers are held in tenths: JNum(129) is 12.9.
DigitSeq == <<"0", "1", "2", "3", "4", "5", "6", "7", "8", "9">>

DigitChars == {DigitSeq[i] : i \in 1..10}

DigitVal(c) == (CHOOSE i \in 1..10 : DigitSeq[i] = c) - 1

RECURSIVE NatVal(_)
NatVal(ds) ==
  IF ds = <<>> THEN 0 ELSE 10 * NatVal(SubSeq(ds, 1, Len(ds) - 1)) + DigitVal(ds[Len(ds)])

\* The decimal literals sign? digit+ ('.' digit*)? among those float() parses
IsDecimal(cs) ==
  LET u == IF cs # <<>> /\ cs[1] \in {"-", "+"} THEN Tail(cs) ELSE cs
      dots == {i \in 1..Len(u) : u[i] = "."}
      int == IF dots = {} THEN u ELSE SubSeq(u, 1, (CHOOSE d \in dots : TRUE) - 1)
  IN  /\ Cardinality(dots) <= 1
      /\ int # <<>>
      /\ \A i \in 1..Len(u) : u[i] \in DigitChars \cup {"."}

\* The value of such a literal, in tenths (further digits dropped)
DecimalTenths(cs) ==
  LET neg == cs[1] = "-"
      u == IF cs[1] \in {"-", "+"} THEN Tail(cs) ELSE cs
      dots == {i \in 1..Len(u) : u[i] = "."}
      d == IF dots = {} THEN Len(u) + 1 ELSE CHOOSE x \in dots : TRUE
      mag == 10 * NatVal(SubSeq(u, 1, d - 1))
               + (IF d + 1 <= Len(u) THEN DigitVal(u[d + 1]) ELSE 0)
  IN  IF neg THEN 0 - mag ELSE mag

\* float(x)
FloatOf(j) ==
  CASE j.t = "num"  -> Ok(j.n)
    [] j.t = "bool" -> Ok(IF j.b THEN 10 ELSE 0)
    [] j.t = "str"  -> IF IsDecimal(Strip(j.s)) THEN Ok(DecimalTenths(Strip(j.s)))
                       ELSE Raise("ValueError")
    [] OTHER        -> Raise("TypeError")

\* obj[key] for a string key
ItemAt(j, key) ==
  IF j.t = "dict"
  THEN IF key \in DOMAIN j.d THEN Ok(j.d[key]) ELSE Raise("KeyError")
  ELSE Raise("TypeError")

\* obj[0]
Item0(j) ==
  CASE j.t = "list" -> IF Len(j.items) > 0 THEN Ok(j.items[1]) ELSE Raise("IndexError")
    [] j.t = "str"  -> IF Len(j.s) > 0 THEN Ok(JStr(<<j.s[1]>>)) ELSE Raise("IndexError")
    [] j.t = "dict" -> Raise("KeyError")
    [] OTHER        -> Raise("TypeError")

\* len(obj)
LenOf(j) ==
  CASE j.t = "list" -> Ok(Len(j.items))
    [] j.t = "str"  -> Ok(Len(j.s))
    [] j.t = "dict" -> Ok(Cardinality(DOMAIN j.d))
    [] OTHER        -> Raise("TypeError")

\* response.get('error', default) on the envelope dict
ErrorOf(response, default) ==
  IF "error" \in DOMAIN response THEN response.error ELSE default

\* ----------------------------------------------- PlacesAgent.get_coordinates
NoCoords == [some |-> FALSE]

Coords(lat, lon) == [some |-> TRUE, lat |-> lat, lon |-> lon]

\* float(data[0][key])
FloatField(data, key) ==
  LET first == Item0(data)
  IN  IF ~first.ok THEN first
      ELSE LET v == ItemAt(first.val, key)
           IN  IF ~v.ok THEN v ELSE FloatOf(v.val)

get_coordinates(response) ==
  IF ~response.success THEN Ok(NoCoords)
  ELSE IF ~Truthy(response.data) THEN Ok(NoCoords)
  ELSE LET data == response.data
           n == LenOf(data)
       IN  IF ~n.ok THEN n
           ELSE IF n.val > 0
           THEN LET lat == FloatField(data, "lat")
                    lon == FloatField(data, "lon")
                IN  IF ~lat.ok THEN lat
                    ELSE IF ~lon.ok THEN lon
                    ELSE Ok(Coords(lat.val, lon.val))
           ELSE Ok(NoCoords)

\* ------------------------------------------------- WeatherAgent.get_weather
WeatherFailedDefault == <<Lit("Failed to fetch weather data")>>

UTC == <<"U", "T", "C">>

\* d.get(key, default) for a dict d
Get(j, key, default) == IF key \in DOMAIN j.d THEN j.d[key] ELSE default

get_weather(response) ==
  IF ~response.success
  THEN Ok([success |-> FALSE, error |-> ErrorOf(response, WeatherFailedDefault)])
  ELSE LET data == response.data
           current == DictGet(data, "current", JDict(EmptyDict))
           daily == DictGet(data, "daily", JDict(EmptyDict))
       IN  IF ~current.ok THEN current
           ELSE IF ~daily.ok THEN daily
           ELSE IF current.val.t # "dict" \/ daily.val.t # "dict"
                THEN Raise("AttributeError")
           ELSE Ok([success |-> TRUE,
                    current |->
                      [temperature |-> Get(current.val, "temperature_2m", JNull),
                       humidity |-> Get(current.val, "relative_humidity_2m", JNull),
                       precipitation |-> Get(current.val, "precipitation", JNull),
                       weather_code |-> Get(current.val, "weather_code", JNull)],
                    forecast |->
                      [max_temps |-> Get(daily.val, "temperature_2m_max", JList(<<>>)),
                       min_temps |-> Get(daily.val, "temperature_2m_min", JList(<<>>)),
                       precipitation_probability |->
                         Get(daily.val, "precipitation_probability_max", JList(<<>>)),
                       dates |-> Get(daily.val, "time", JList(<<>>))],
                    timezone |-> Get(data, "timezone", JStr(UTC))])

\* ------------------------------------ PlacesAgent.get_tourist_attractions
\* The defaults of the radius and limit parameters
DefaultRadius == 5000

DefaultLimit == 5

PlacesFailedDefault == <<Lit("Failed to fetch tourist attractions")>>

NoAttractionsMessage == <<Lit("No tourist attractions found in this area")>>

ATTRACTION == <<"a", "t", "t", "r", "a", "c", "t", "i", "o", "n">>

\* The Overpass QL query: the count after `out center` is the parameter limit
OverpassQuery(latitude, longitude, radius, limit) ==
  [around |-> <<radius, latitude, longitude>>, out |-> limit]

\* a or b
PyOr(a, b) == IF Truthy(a) THEN a ELSE b

\* tags.get('tourism') or tags.get('historic') or tags.get('amenity', 'attraction')
AttractionType(tags) ==
  PyOr(PyOr(Get(tags, "tourism", JNull), Get(tags, "historic", JNull)),
       Get(tags, "amenity", JStr(ATTRACTION)))

\* str.replace('_', ' ')
ReplaceUnderscore(s) == [i \in 1..Len(s) |-> IF s[i] = "_" THEN " " ELSE s[i]]

\* str.title
Title(s) ==
  [i \in 1..Len(s) |->
     IF ~IsLetter(s[i]) THEN s[i]
     ELSE IF i = 1 \/ ~IsLetter(s[i - 1]) THEN ToUpper(s[i])
     ELSE ToLower(s[i])]

\* The name given to an element without one
SynthesizedName(tags) ==
  IF AttractionType(tags).t # "str" THEN Raise("AttributeError")
  ELSE Ok(JStr(Title(ReplaceUnderscore(AttractionType(tags).s))))

\* The (lat, lon) of an element: its center when it has one
Position(element) ==
  IF "center" \in DOMAIN element.d
  THEN LET lat == ItemAt(element.d["center"], "lat")
           lon == ItemAt(element.d["center"], "lon")
       IN  IF ~lat.ok THEN lat
           ELSE IF ~lon.ok THEN lon
           ELSE Ok(<<lat.val, lon.val>>)
  ELSE Ok(<<Get(element, "lat", JNull), Get(element, "lon", JNull)>>)

\* ParseElement without the test that skips an element with no name and no
\* description
ParseElement_keep_unnamed(element) ==
  LET tagsR == DictGet(element, "tags", JDict(EmptyDict))
  IN  IF ~tagsR.ok THEN tagsR
      ELSE IF tagsR.val.t # "dict" THEN Raise("AttributeError")
      ELSE LET tags == tagsR.val
               name == Get(tags, "name", JStr(<<>>))
               pos == Position(element)
               named == IF Truthy(name) THEN Ok(name) ELSE SynthesizedName(tags)
           IN  IF ~pos.ok THEN pos
               ELSE IF ~named.ok THEN named
               ELSE Ok(<<[name |-> named.val,
                          type |-> AttractionType(tags),
                          latitude |-> pos.val[1],
                          longitude |-> pos.val[2],
                          address |-> PyOr(Get(tags, "addr:full", JNull),
                                           Get(tags, "addr:street", JStr(<<>>))),
                          website |-> Get(tags, "website", JStr(<<>>)),
                          description |-> Get(tags, "description", JStr(<<>>))]>>)

\* The body of the for loop on one element: Ok(<<>>) when it is skipped,
\* Ok(<<attraction>>) when it is kept
ParseElement(element) ==
  LET tagsR == DictGet(element, "tags", JDict(EmptyDict))
  IN  IF ~tagsR.ok THEN tagsR
      ELSE IF tagsR.val.t # "dict" THEN Raise("AttributeError")
      ELSE LET tags == tagsR.val
               name == Get(tags, "name", JStr(<<>>))
               description == Get(tags, "description", JStr(<<>>))
               pos == Position(element)
               named == IF Truthy(name) THEN Ok(name) ELSE SynthesizedName(tags)
           IN  IF ~Truthy(name) /\ ~Truthy(description) THEN Ok(<<>>)
               ELSE IF ~pos.ok THEN pos
               ELSE IF ~named.ok THEN named
               ELSE Ok(<<[name |-> named.val,
                          type |-> AttractionType(tags),
                          latitude |-> pos.val[1],
                          longitude |-> pos.val[2],
                          address |-> PyOr(Get(tags, "addr:full", JNull),
                                           Get(tags, "addr:street", JStr(<<>>))),
                          website |-> Get(tags, "website", JStr(<<>>)),
                          description |-> description]>>)

Min(a, b) == IF a <= b THEN a ELSE b

\* elements[:n] for n >= 0, as the sequence the for loop walks
SliceTo(j, n) ==
  CASE j.t = "list" -> Ok(SubSeq(j.items, 1, Min(Len(j.items), n)))
    [] j.t = "str"  -> Ok([i \in 1..Min(Len(j.s), n) |-> JStr(<<j.s[i]>>)])
    [] OTHER        -> Raise("TypeError")

\* The for loop from element i on, with the attractions kept so far
RECURSIVE ParseFrom(_, _, _, _)
ParseFrom(elems, i, attractions, limit) ==
  IF i > Len(elems) THEN Ok(attractions)
  ELSE LET r == ParseElement(elems[i])
       IN  IF ~r.ok THEN r
           ELSE IF r.val = <<>> THEN ParseFrom(elems, i + 1, attractions, limit)
           ELSE IF Len(attractions) + 1 >= limit THEN Ok(attractions \o r.val)
           ELSE ParseFrom(elems, i + 1, attractions \o r.val, limit)

\* The empty answer reported as a failure
NoAttractionsResult_as_failure ==
  [success |-> FALSE, error |-> NoAttractionsMessage]

\* What is returned when the service has no element for the area
NoAttractionsResult ==
  [success |-> TRUE, attractions |-> <<>>, message |-> NoAttractionsMessage]

get_tourist_attractions(response, limit) ==
  IF ~response.success
  THEN Ok([success |-> FALSE, error |-> ErrorOf(response, PlacesFailedDefault)])
  ELSE LET elements == DictGet(response.data, "elements", JList(<<>>))
       IN  IF ~elements.ok THEN elements
           ELSE IF ~Truthy(elements.val)
           THEN Ok(NoAttractionsResult)
           ELSE LET slice == SliceTo(elements.val, limit * 2)
                    parsed == ParseFrom(slice.val, 1, <<>>, limit)
                IN  IF ~slice.ok THEN slice
                    ELSE IF ~parsed.ok THEN parsed
                    ELSE Ok([success |-> TRUE, attractions |-> parsed.val,
                             count |-> Len(parsed.val)])

\* ------------------------------------------------------------ the network
\* What a request can meet: a timeout, a connection failure, another
\* exception of the HTTP library, or a response with a status and a body.
\* A 2xx body is the parsed JSON, or response.text (a str) when it is no JSON.
HtmlPage == <<"<", "h", "t", "m", "l", ">">>

ErrorStatuses == {404, 500}

FailureOutcomes ==
  {[kind |-> "timeout"], [kind |-> "connection"],
   [kind |-> "exception", text |-> "Exceeded 30 redirects."]}
  \cup {[kind |-> "response", status |-> st, body |-> JStr(HtmlPage)] :
          st \in ErrorStatuses}

OkResponse(body) == [kind |-> "response", status |-> 200, body |-> body]

\* Geocoding: an array of matches whose lat and lon are strings
GeoMatch(lat, lon) == JDict([lat |-> JStr(lat), lon |-> JStr(lon)])

GeoBodies ==
  {JList(<<>>),
   JList(<<GeoMatch(<<"1", "2", ".", "9">>, <<"7", "7", ".", "5">>)>>),
   JList(<<GeoMatch(<<"-", "3", "3", ".", "8">>, <<"1", "5", "1">>)>>),
   JList(<<GeoMatch(<<"n", "/", "a">>, <<"n", "/", "a">>)>>),
   JList(<<JDict([lon |-> JStr(<<"7", "7", ".", "5">>)])>>),
   JDict([error |-> JStr(HtmlPage)]),
   JNum(10),
   JStr(HtmlPage),
   JStr(<<>>)}

\* Forecast: current{}, daily{time[], ...}, timezone
ForecastDays == 3

DailyKeys ==
  {"time", "temperature_2m_max", "temperature_2m_min",
   "precipitation_probability_max"}

\* A daily series of n entries
Series(key, n) ==
  JList([i \in 1..n |-> IF key = "time" THEN JStr(<<"d", DigitSeq[i + 1]>>)
                        ELSE JNum(200 + 10 * i)])

\* For each daily key: 0 when the series is missing, else its length
SeriesShapes == [DailyKeys -> {0, ForecastDays - 1, ForecastDays}]

DailyOf(shape) ==
  [k \in {x \in DailyKeys : shape[x] # 0} |-> Series(k, shape[k])]

CurrentConditions ==
  JDict([temperature_2m |-> JNum(215), relative_humidity_2m |-> JNum(600),
         precipitation |-> JNum(0), weather_code |-> JNum(30)])

WxBody(shape) ==
  JDict([current |-> CurrentConditions, daily |-> JDict(DailyOf(shape)),
         timezone |-> JStr(<<"A", "s", "i", "a", "/", "T", "o", "k", "y", "o">>)])

WxBodies ==
  {WxBody(shape) : shape \in SeriesShapes}
  \cup {JDict(EmptyDict),
        JDict([current |-> JNull, daily |-> JDict(EmptyDict)]),
        JList(<<>>),
        JStr(HtmlPage)}

\* Spatial query: elements[], each with lat/lon or center, and tags
NamedNode ==
  JDict([type |-> JStr(<<"n">>), lat |-> JNum(129), lon |-> JNum(775),
         tags |-> JDict([name |-> JStr(<<"F", "o", "r", "t">>), tourism |-> JStr(<<"m", "u", "s", "e", "u", "m">>)])])

DescribedWay ==
  JDict([type |-> JStr(<<"w">>),
         center |-> JDict([lat |-> JNum(130), lon |-> JNum(776)]),
         tags |-> JDict([description |-> JStr(<<"O", "l", "d">>),
                         tourism |-> JStr(<<"t", "h", "e", "m", "e", "_", "p", "a", "r", "k">>)])])

BareNode ==
  JDict([type |-> JStr(<<"n">>), lat |-> JNum(131), lon |-> JNum(777),
         tags |-> JDict([amenity |-> JStr(<<"p", "l", "a", "c", "e", "_", "o", "f", "_", "w", "o", "r", "s", "h", "i", "p">>)])])

BlankNode ==
  JDict([type |-> JStr(<<"n">>), lat |-> JNum(132), lon |-> JNum(778),
         tags |-> JDict([name |-> JStr(<<>>), historic |-> JStr(<<"c", "a", "s", "t", "l", "e">>)])])

ElementKinds == {NamedNode, DescribedWay, BareNode, BlankNode}

\* An element has neither a name nor a description tag with text
LacksNameAndDescription(element) ==
  LET tags == element.d["tags"].d
  IN  /\ "name" \in DOMAIN tags => tags["name"].s = <<>>
      /\ "description" \in DOMAIN tags => tags["description"].s = <<>>

\* `out center N`: the service prints at most N of the elements it holds
OverpassAnswer(held, query) ==
  JDict([elements |-> JList(SubSeq(held, 1, Min(Len(held), query.out)))])

PlacesBodies(held, query) ==
  {OverpassAnswer(held, query),
   JDict([remark |-> JStr(HtmlPage)]),
   JDict([elements |->
            JList(<<JDict([center |-> JDict([lon |-> JNum(776)]),
                           tags |-> JDict([name |-> JStr(<<"F", "o", "r", "t">>)])])>>)]),
   JDict([elements |-> JList(<<JDict([tags |-> JNull])>>)]),
   JStr(HtmlPage)}

Bodies(request, held) ==
  CASE request.service = "weather" -> WxBodies
    [] request.service = "places" -> PlacesBodies(held, request.query)
    [] OTHER -> GeoBodies

NetworkOutcomes(request, held) ==
  FailureOutcomes \cup {OkResponse(b) : b \in Bodies(request, held)}

\* How an attempt ended, for the log of the call
OutcomeTag(o) ==
  IF o.kind # "response" THEN o.kind
  ELSE IF RaisesForStatus(o.status) THEN "http_error" ELSE "ok"

VARIABLES
  pc,           \* position in process_query (or in the function under study)
  text,         \* user_input
  location,     \* extract_location's result
  intent,       \* analyze_intent's result
  coords,       \* get_coordinates' result
  weather_data, \* get_weather's result
  places_data,  \* get_tourist_attractions' result
  results,      \* the dict process_query builds and returns
  raised,       \* the exception that left process_query, if one did
  calls,        \* the services called so far, in order
  limit,        \* the limit argument of get_tourist_attractions
  held,         \* the matching elements the spatial-data service holds
  req,          \* arguments of the make_api_request call in progress
  attempt,      \* its loop variable
  outcomes,     \* what each request of the call met, in order
  sleeps,       \* the arguments of its time.sleep calls, in order
  envelope      \* its return value, once returned

textVars == <<text, location, intent>>

queryVars == <<coords, weather_data, places_data, results, raised, calls>>

upstreamVars == <<limit, held>>

callVars == <<req, attempt, outcomes, sleeps, envelope>>

vars == <<pc, textVars, queryVars, upstreamVars, callVars>>

NoIntent == [weather |-> FALSE, places |-> FALSE]

PyNone == [none |-> TRUE]

\* A str held where None may be held too
Str(msg) == [none |-> FALSE, msg |-> msg]

\* bool(x) for such a value
TruthyStr(x) == ~x.none /\ Len(x.msg) > 0

NoException == "none"

NoLocationMessage ==
  <<Lit("Could not identify a location in your query. Please mention a place name.")>>

\* The unknown-place message without the place name
UnknownPlaceMessage_no_name(place) ==
  <<Lit("I'm sorry, I don't know this place exists")>>

UnknownPlaceMessage(place) ==
  <<Lit("I'm sorry, I don't know this place exists: "), Txt(place)>>

AlsoSeparator == <<Lit(" Also: ")>>

NoRequest ==
  [service |-> "none", method |-> GET, max_retries |-> DefaultMaxRetries,
   query |-> [out |-> 0]]

\* make_api_request(NOMINATIM_URL, params, headers)
GeocodeRequest(place_name) ==
  [service |-> "geocode", method |-> GET, max_retries |-> DefaultMaxRetries,
   query |-> [q |-> place_name, limit |-> 1, out |-> 0]]

\* make_api_request(BASE_URL, params)
WeatherRequest(c) ==
  [service |-> "weather", method |-> GET, max_retries |-> DefaultMaxRetries,
   query |-> [latitude |-> c.lat, longitude |-> c.lon,
              forecast_days |-> ForecastDays, out |-> 0]]

\* make_api_request(OVERPASS_URL, data={'data': query}, method='POST')
PlacesRequest(c, radius, lim) ==
  [service |-> "places", method |-> POST, max_retries |-> DefaultMaxRetries,
   query |-> OverpassQuery(c.lat, c.lon, radius, lim)]

IdleCall ==
  /\ req = NoRequest
  /\ attempt = 0
  /\ outcomes = <<>>
  /\ sleeps = <<>>
  /\ envelope = NoEnvelope

\* Entering make_api_request
BeginCall(request) ==
  /\ req' = request
  /\ attempt' = 0
  /\ outcomes' = <<>>
  /\ sleeps' = <<>>
  /\ envelope' = NoEnvelope
  /\ calls' = Append(calls, request.service)

CallPcs == {"call", "geo_call", "wx_call", "pl_call"}

\* make_api_request: one pass through the retry loop (request, handling of
\* its outcome, backoff sleep), or the return that ends the call
HttpAttempt ==
  /\ pc \in CallPcs
  /\ ~envelope.returned
  /\ \E o \in NetworkOutcomes(req, held) :
       LET issued == attempt < req.max_retries /\ IssuesRequest(req.method)
           r == LoopIteration(req.method, req.max_retries, attempt, o)
       IN  /\ outcomes' = IF issued THEN Append(outcomes, OutcomeTag(o))
                          ELSE outcomes
           /\ attempt' = r.attempt
           /\ sleeps' = sleeps \o r.slept
           /\ envelope' = r.envelope
  /\ UNCHANGED <<pc, textVars, queryVars, upstreamVars, req>>

InitialResults(loc) ==
  [success |-> TRUE, location |-> Str(loc), weather |-> PyNone,
   places |-> PyNone, error |-> PyNone]

NoLocationResults ==
  [success |-> FALSE, error |-> Str(NoLocationMessage), location |-> PyNone,
   weather |-> PyNone, places |-> PyNone]

UnknownPlaceResults(loc) ==
  [success |-> FALSE, error |-> Str(UnknownPlaceMessage(loc)),
   location |-> Str(loc), weather |-> PyNone, places |-> PyNone]

\* process_query up to the call of get_coordinates
ProcessQuery ==
  /\ pc = "start"
  /\ location' = extract_location(text)
  /\ IF ~location'.found \/ Len(location'.loc) = 0
     THEN /\ results' = NoLocationResults
          /\ pc' = "done"
          /\ UNCHANGED <<intent, calls, callVars>>
     ELSE /\ intent' = analyze_intent(text)
          /\ results' = InitialResults(location'.loc)
          /\ BeginCall(GeocodeRequest(location'.loc))
          /\ pc' = "geo_call"
  /\ UNCHANGED <<text, coords, weather_data, places_data, raised, upstreamVars>>

\* The results after the weather step, given get_weather's return value
WithWeather(res, wd) ==
  IF wd.success THEN [res EXCEPT !.weather = wd]
  ELSE [res EXCEPT !.error = Str(ErrorOf(wd, WeatherFailedDefault))]

PlacesFailedMessage == <<Lit("Failed to fetch places data")>>

\* WithPlaces with the places error assigned, not appended
WithPlaces_overwrite(res, pd) ==
  IF pd.success THEN [res EXCEPT !.places = pd]
  ELSE [res EXCEPT !.error = Str(ErrorOf(pd, PlacesFailedMessage))]

\* The results after the places step, given get_tourist_attractions' value
WithPlaces(res, pd) ==
  IF pd.success THEN [res EXCEPT !.places = pd]
  ELSE IF TruthyStr(res.error)
       THEN [res EXCEPT !.error =
               Str(res.error.msg \o AlsoSeparator \o ErrorOf(pd, PlacesFailedMessage))]
       ELSE [res EXCEPT !.error = Str(ErrorOf(pd, PlacesFailedMessage))]

\* get_coordinates returns; process_query goes on to the first fetch
GeocodeReturn ==
  /\ pc = "geo_call"
  /\ envelope.returned
  /\ LET c == get_coordinates(envelope)
     IN  IF ~c.ok
         THEN /\ raised' = c.exc
              /\ pc' = "raised"
              /\ UNCHANGED <<coords, results, calls, callVars>>
         ELSE /\ coords' = c.val
              /\ UNCHANGED raised
              /\ IF ~c.val.some
                 THEN /\ results' = UnknownPlaceResults(location.loc)
                      /\ pc' = "done"
                      /\ UNCHANGED <<calls, callVars>>
                 ELSE /\ UNCHANGED results
                      /\ IF intent.weather
                         THEN /\ BeginCall(WeatherRequest(c.val))
                              /\ pc' = "wx_call"
                         ELSE IF intent.places
                         THEN /\ BeginCall(PlacesRequest(c.val, DefaultRadius, limit))
                              /\ pc' = "pl_call"
                         ELSE /\ pc' = "done"
                              /\ UNCHANGED <<calls, callVars>>
  /\ UNCHANGED <<textVars, weather_data, places_data, upstreamVars>>

\* get_weather returns; process_query records it and goes on
WeatherReturn ==
  /\ pc = "wx_call"
  /\ envelope.returned
  /\ LET w == get_weather(envelope)
     IN  IF ~w.ok
         THEN /\ raised' = w.exc
              /\ pc' = "raised"
              /\ UNCHANGED <<weather_data, results, calls, callVars>>
         ELSE /\ weather_data' = w.val
              /\ results' = WithWeather(results, w.val)
              /\ UNCHANGED raised
              /\ IF intent.places
                 THEN /\ BeginCall(PlacesRequest(coords, DefaultRadius, limit))
                      /\ pc' = "pl_call"
                 ELSE /\ pc' = "done"
                      /\ UNCHANGED <<calls, callVars>>
  /\ UNCHANGED <<textVars, coords, places_data, upstreamVars>>

\* get_tourist_attractions returns; process_query records it and returns
PlacesReturn ==
  /\ pc = "pl_call"
  /\ envelope.returned
  /\ LET pl == get_tourist_attractions(envelope, limit)
     IN  IF ~pl.ok
         THEN /\ raised' = pl.exc
              /\ pc' = "raised"
              /\ UNCHANGED <<places_data, results>>
         ELSE /\ places_data' = pl.val
              /\ results' = WithPlaces(results, pl.val)
              /\ pc' = "done"
              /\ UNCHANGED raised
  /\ UNCHANGED <<textVars, coords, weather_data, calls, upstreamVars, callVars>>

\* ------------------------------------------------------------ process_query
\* Queries the orchestrator is run on
Queries ==
  {
    <<"W", "h", "a", "t", "'", "s", " ", "t", "h", "e", " ", "w", "e", "a", "t", "h", "e", "r", " ", "i", "n", " ", "T", "o", "k", "y", "o", "?">>,
    <<"I", "'", "m", " ", "g", "o", "i", "n", "g", " ", "t", "o", " ", "B", "a", "n", "g", "a", "l", "o", "r", "e", ",", " ", "l", "e", "t", "'", "s", " ", "p", "l", "a", "n", " ", "m", "y", " ", "t", "r", "i", "p">>,
    <<"T", "e", "l", "l", " ", "m", "e", " ", "a", "b", "o", "u", "t", " ", "N", "e", "w", " ", "Y", "o", "r", "k", " ", "w", "e", "a", "t", "h", "e", "r", " ", "a", "n", "d", " ", "t", "o", "u", "r", "i", "s", "t", " ", "s", "p", "o", "t", "s">>,
    <<"t", "r", "i", "p", " ", "t", "o", " ", "N", "o", "w", "h", "e", "r", "e", "i", "s", "t", "a", "n">>,
    <<"w", "e", "a", "t", "h", "e", "r", " ", "i", "n", " ", "g", "o", "a">> }

\* What the spatial-data service holds around the place, for those runs
SampleHeld ==
  {<<>>,
   <<NamedNode, BareNode, DescribedWay>>,
   <<BareNode, BlankNode, BareNode, BareNode, BlankNode,
     NamedNode, DescribedWay, NamedNode, NamedNode, DescribedWay, NamedNode>>}

NoData == [success |-> FALSE]

IdleQuery ==
  /\ coords = NoCoords
  /\ weather_data = NoData
  /\ places_data = NoData
  /\ results = PyNone
  /\ raised = NoException
  /\ calls = <<>>

Init ==
  /\ pc = "start"
  /\ text \in Queries
  /\ location = None
  /\ intent = NoIntent
  /\ IdleQuery
  /\ limit = DefaultLimit
  /\ held \in SampleHeld
  /\ IdleCall

Next ==
  \/ ProcessQuery
  \/ HttpAttempt
  \/ GeocodeReturn
  \/ WeatherReturn
  \/ PlacesReturn

Spec == Init /\ [][Next]_vars

\* ------------------------------------------- the text functions on their own
InitText ==
  /\ pc = "input"
  /\ text \in Texts
  /\ location = None
  /\ intent = NoIntent
  /\ IdleQuery
  /\ limit = DefaultLimit
  /\ held = <<>>
  /\ IdleCall

ExtractLocation ==
  /\ pc = "input"
  /\ location' = extract_location(text)
  /\ pc' = "extracted"
  /\ UNCHANGED <<text, intent, queryVars, upstreamVars, callVars>>

AnalyzeIntent ==
  /\ pc = "extracted"
  /\ intent' = analyze_intent(text)
  /\ pc' = "classified"
  /\ UNCHANGED <<text, location, queryVars, upstreamVars, callVars>>

NextText == ExtractLocation \/ AnalyzeIntent

SpecText == InitText /\ [][NextText]_vars


\* --------------------------------------------- make_api_request on its own
Methods == {GET, POST, <<"g", "e", "t">>, <<"P", "U", "T">>}

TransportRequests ==
  {[service |-> "geocode", method |-> m, max_retries |-> n,
    query |-> [out |-> 0]] : m \in Methods, n \in -1..MaxRetriesBound}

InitTransport ==
  /\ pc = "call"
  /\ text = <<>>
  /\ location = None
  /\ intent = NoIntent
  /\ IdleQuery
  /\ limit = DefaultLimit
  /\ held = <<>>
  /\ req \in TransportRequests
  /\ attempt = 0
  /\ outcomes = <<>>
  /\ sleeps = <<>>
  /\ envelope = NoEnvelope

NextTransport == HttpAttempt

SpecTransport == InitTransport /\ [][NextTransport]_vars

\* The loop of make_api_request runs in one thread and every request is
\* issued with a timeout, so an iteration that can run does run.
SpecTransportFair == SpecTransport /\ WF_vars(HttpAttempt)

\* -------------------------------------- get_tourist_attractions on its own
HeldLists == UNION {[1..n -> ElementKinds] : n \in 0..MaxHeld}

SamplePlace == <<"G", "o", "a">>

SampleCoords == Coords(129, 775)

InitPlaces ==
  /\ pc = "pl_call"
  /\ text = SamplePlace
  /\ location = Some(SamplePlace)
  /\ intent = [weather |-> FALSE, places |-> TRUE]
  /\ coords = SampleCoords
  /\ weather_data = NoData
  /\ places_data = NoData
  /\ results = InitialResults(SamplePlace)
  /\ raised = NoException
  /\ calls = <<"geocode", "places">>
  /\ limit \in 1..MaxLimit
  /\ held \in HeldLists
  /\ req = PlacesRequest(SampleCoords, DefaultRadius, limit)
  /\ attempt = 0
  /\ outcomes = <<>>
  /\ sleeps = <<>>
  /\ envelope = NoEnvelope

NextPlaces == HttpAttempt \/ PlacesReturn

SpecPlaces == InitPlaces /\ [][NextPlaces]_vars


\* ==================================================================== claims
CoordsResolved == coords.some

Terminated == pc \in {"done", "raised"}

\* C1: for every query whose location was extracted and whose coordinates
\* were resolved, process_query returns a result with success = true and
\* location = the extracted location, whatever the two fetches do.
C1_SuccessOnceResolved ==
  (Terminated /\ CoordsResolved) =>
    /\ pc = "done"
    /\ results.success
    /\ results.location = Str(location.loc)

WeatherFailed == intent.weather /\ ~weather_data.success

PlacesFailed == intent.places /\ ~places_data.success

\* C2: once coordinates are resolved, the error of the returned result is
\* None when no requested fetch failed, the weather fetcher's message when
\* only the weather fetch failed, the attraction finder's message when only
\* the places fetch failed (weather still attached when it succeeded, places
\* None), and the weather message, " Also: ", the places message when both
\* failed.
C2_ErrorComposition ==
  (pc = "done" /\ CoordsResolved) =>
    /\ (~WeatherFailed /\ ~PlacesFailed) => results.error = PyNone
    /\ (WeatherFailed /\ ~PlacesFailed) =>
         results.error = Str(weather_data.error)
    /\ (~WeatherFailed /\ PlacesFailed) =>
         /\ results.error = Str(places_data.error)
         /\ results.places = PyNone
         /\ intent.weather => results.weather = weather_data
    /\ (WeatherFailed /\ PlacesFailed) =>
         results.error =
           Str(weather_data.error \o <<Lit(" Also: ")>> \o places_data.error)

\* C2 witness: both fetches failed, with different messages
C2_BothFailed ==
  /\ pc = "done"
  /\ CoordsResolved
  /\ WeatherFailed
  /\ PlacesFailed
  /\ weather_data.error = TimeoutMessage
  /\ places_data.error = HTTPErrorMessage(500)

\* C3: whatever the HTTP call meets, the location resolver, the weather
\* fetcher and the attraction finder return a value and raise no exception
\* past their boundary.
C3_NoExceptionEscapes == pc # "raised" /\ raised = NoException

TokyoQuery == <<"W", "h", "a", "t", "'", "s", " ", "t", "h", "e", " ", "w", "e", "a", "t", "h", "e", "r", " ", "i", "n", " ", "T", "o", "k", "y", "o", "?">>

\* C4: extract_location("What's the weather in Tokyo?") is "Tokyo".
C4_TokyoExtracted ==
  (pc # "input" /\ text = TokyoQuery) => location = Some(<<"T", "o", "k", "y", "o">>)

Retryable == {"timeout", "connection"}

\* C5: a call makes at most 3 attempts; every attempt but the last ended in
\* a timeout or a connection failure and was followed by a wait of 1 s times
\* its index (1 s, then 2 s); an HTTP error response or an unsupported
\* method ends the call there with a failure envelope, a successful
\* response with a success envelope.
C5_RetryPolicy ==
  pc = "call" =>
    LET n == Len(outcomes)
    IN  /\ req.max_retries = DefaultMaxRetries => n <= 3
        /\ \A i \in 1..(n - 1) : outcomes[i] \in Retryable
        /\ Len(sleeps) = IF envelope.returned /\ n > 0 THEN n - 1 ELSE n
        /\ \A i \in 1..Len(sleeps) : sleeps[i] = i
        /\ (n > 0 /\ outcomes[n] = "http_error") =>
             envelope.returned /\ ~envelope.success
        /\ (n > 0 /\ outcomes[n] = "ok") =>
             envelope.returned /\ envelope.success
        /\ Upper(req.method) \notin {GET, POST} =>
             /\ n = 0
             /\ envelope.returned => ~envelope.success

\* C5 witness: three attempts, waits of 1 s and 2 s, then the failure
C5_ThreeAttempts ==
  /\ pc = "call"
  /\ outcomes = <<"timeout", "connection", "timeout">>
  /\ sleeps = <<1, 2>>
  /\ envelope = Failure(TimeoutMessage)

ForecastArrays(w) ==
  {w.forecast.dates, w.forecast.max_temps, w.forecast.min_temps,
   w.forecast.precipitation_probability}

\* C6: in every successful weather snapshot the four forecast arrays have
\* the same length.
C6_ForecastArraysAligned ==
  weather_data.success =>
    \A a, b \in ForecastArrays(weather_data) : Len(a.items) = Len(b.items)

\* The elements of the held list that have a name or a description
HasNameOrDescription(element) == ~LacksNameAndDescription(element)

KeptOf(elements) == SelectSeq(elements, HasNameOrDescription)

\* The position an element is reported at
PlaceOf(element) ==
  IF "center" \in DOMAIN element.d
  THEN <<element.d["center"].d["lat"], element.d["center"].d["lon"]>>
  ELSE <<element.d["lat"], element.d["lon"]>>

TagOf(element, key) ==
  IF key \in DOMAIN element.d["tags"].d THEN element.d["tags"].d[key].s
  ELSE <<>>

\* C7: the attractions returned are, in order, elements that have a name or
\* a description (none that lacks both), and each has a non-empty name: the
\* tagged name, or the title-cased category when there is only a description.
C7_NoUnnamedUndescribed ==
  (pc = "done" /\ places_data.success) =>
    LET out == places_data.attractions
        kept == KeptOf(held)
    IN  /\ Len(out) <= Len(kept)
        /\ \A i \in 1..Len(out) :
             /\ out[i].name.s # <<>>
             /\ <<out[i].latitude, out[i].longitude>> = PlaceOf(kept[i])
             /\ out[i].description.s = TagOf(kept[i], "description")
             /\ TagOf(kept[i], "name") # <<>> =>
                  out[i].name.s = TagOf(kept[i], "name")
             /\ kept[i] = DescribedWay => out[i].name.s = <<"T", "h", "e", "m", "e", " ", "P", "a", "r", "k">>

\* C7 witness: an element without name and description came first and was
\* dropped, and a described one was returned under a synthesized name
C7_DroppedAndSynthesized ==
  /\ pc = "done"
  /\ places_data.success
  /\ Len(held) >= 2
  /\ LacksNameAndDescription(held[1])
  /\ Len(places_data.attractions) >= 1
  /\ places_data.attractions[1].name.s = <<"T", "h", "e", "m", "e", " ", "P", "a", "r", "k">>

\* C8: up to 2 x limit candidates are requested, so that when the service
\* holds at least 2 x limit matching elements of which at most limit lack
\* both name and description, limit attractions are returned.
C8_AbsorbsFilteringLoss ==
  ( /\ pc = "done"
    /\ places_data.success
    /\ envelope.data = OverpassAnswer(held, req.query)
    /\ Len(held) >= 2 * limit
    /\ Cardinality({i \in 1..Len(held) : LacksNameAndDescription(held[i])})
         <= limit )
  => Len(places_data.attractions) = limit

\* kw occurs in t when letter case is ignored
OccursIgnoringCase(kw, t) ==
  \E i \in 1..(Len(t) - Len(kw) + 1) :
    \A j \in 1..Len(kw) : ToLower(t[i + j - 1]) = ToLower(kw[j])

AnyOccurs(keywords, t) ==
  \E i \in 1..Len(keywords) : OccursIgnoringCase(keywords[i], t)

\* C9: wants_weather is true exactly when a weather keyword occurs as a
\* case-insensitive substring; wants_places exactly when a places keyword
\* occurs or no keyword of either vocabulary does; so one flag at least is
\* true, and a weather keyword without a places keyword gives
\* {weather: true, places: false}.
C9_IntentFlags ==
  pc = "classified" =>
    /\ intent.weather <=> AnyOccurs(weather_keywords, text)
    /\ intent.places <=>
         (AnyOccurs(places_keywords, text)
            \/ ~(AnyOccurs(weather_keywords, text)
                   \/ AnyOccurs(places_keywords, text)))
    /\ intent.weather \/ intent.places
    /\ (AnyOccurs(weather_keywords, text) /\ ~AnyOccurs(places_keywords, text))
         => intent = [weather |-> TRUE, places |-> FALSE]

\* C9 witness: a capitalised weather keyword and no places keyword
C9_WeatherOnly ==
  /\ pc = "classified"
  /\ Contains(text, <<"R", "a", "i", "n">>)
  /\ ~AnyOccurs(places_keywords, text)
  /\ intent = [weather |-> TRUE, places |-> FALSE]

\* No whitespace-separated token of t begins with an uppercase letter
NoCapitalizedToken(t) ==
  \A i \in 1..Len(t) :
    IsUpper(t[i]) => (i > 1 /\ t[i - 1] \notin WS)

\* C10: when no token of the text begins with an uppercase letter,
\* extract_location returns None.
C10_NoCapitalNoLocation ==
  (pc # "input" /\ NoCapitalizedToken(text)) => location = None

\* C10 witness: a pattern phrase followed by a lower-case place, in a text
\* long enough to be scanned
C10_LowercasePlace ==
  /\ pc = "extracted"
  /\ NoCapitalizedToken(text)
  /\ Contains(text, <<"i", "n", " ", "g", "o", "A">>)
  /\ location = None


\* The message holds the text cs as one of its fragments
MentionsText(msg, cs) == \E i \in 1..Len(msg) : msg[i] = Txt(cs)

NowhereQuery == <<"t", "r", "i", "p", " ", "t", "o", " ", "N", "o", "w", "h", "e", "r", "e", "i", "s", "t", "a", "n">>

\* C11: when a location was extracted and the resolver yields None (the
\* geocoding call failed, or it returned no match), process_query returns
\* success = false with the location set, weather and places None, and an
\* error message that contains the extracted location; for
\* "trip to Nowhereistan" the error contains "Nowhereistan".
C11_UnknownPlace ==
  (pc = "done" /\ location.found /\ ~CoordsResolved) =>
    /\ calls = <<"geocode">>
    /\ ~results.success
    /\ results.location = Str(location.loc)
    /\ results.weather = PyNone
    /\ results.places = PyNone
    /\ ~results.error.none
    /\ MentionsText(results.error.msg, location.loc)
    /\ text = NowhereQuery => MentionsText(results.error.msg, <<"N", "o", "w", "h", "e", "r", "e", "i", "s", "t", "a", "n">>)

\* C11 witness: the geocoder answers "trip to Nowhereistan" with no match
C11_NowhereistanNoMatch ==
  /\ pc = "done"
  /\ text = NowhereQuery
  /\ envelope = Success(JList(<<>>))
  /\ ~results.success


\* The places call came back with a body whose element list is empty
ZeroRawElements ==
  /\ envelope.returned
  /\ envelope.success
  /\ envelope.data.t = "dict"
  /\ "elements" \in DOMAIN envelope.data.d
  /\ envelope.data.d["elements"] = JList(<<>>)

\* The places step of process_query has run and process_query returned
PlacesStepDone == pc = "done" /\ CoordsResolved /\ intent.places

\* C12: when the spatial query succeeds with zero raw elements,
\* get_tourist_attractions returns success with an empty attraction list and
\* a message, process_query attaches it as places and adds no places error
\* (the error is None, or the weather fetch's message alone); a failure is
\* returned by get_tourist_attractions only when the transport call failed,
\* and then with the transport's message.
C12_EmptyIsSuccess ==
  PlacesStepDone =>
    /\ ZeroRawElements =>
         /\ places_data.success
         /\ places_data.attractions = <<>>
         /\ places_data.message = NoAttractionsMessage
         /\ results.places = places_data
         /\ results.error =
              IF WeatherFailed THEN Str(ErrorOf(weather_data, WeatherFailedDefault))
              ELSE PyNone
    /\ ~places_data.success =>
         /\ ~envelope.success
         /\ places_data.error = envelope.error

\* C12 witness: an area with no element, after a weather fetch that worked
C12_NothingAround ==
  /\ PlacesStepDone
  /\ ZeroRawElements
  /\ held = <<>>
  /\ results.success
  /\ results.error = PyNone
  /\ results.places = NoAttractionsResult


LocationExtracted == location.found /\ Len(location.loc) > 0

\* The calls process_query is to make once coordinates are resolved: the
\* weather fetch if wanted, then the places fetch if wanted, each once
FetchesWanted ==
  (IF intent.weather THEN <<"weather">> ELSE <<>>)
    \o (IF intent.places THEN <<"places">> ELSE <<>>)

\* C13: in every execution of process_query no call is made when
\* extract_location returns None (the result is success = false with an
\* error); no fetcher is called unless get_coordinates returned coordinates;
\* with coordinates the weather fetcher is called exactly once if the intent
\* wants weather and never otherwise, the attraction finder exactly once if
\* the intent wants places and never otherwise, the weather fetch before the
\* places fetch, and no call is issued a second time.
C13_CallsOrderedAndGated ==
  Terminated =>
    /\ ~LocationExtracted =>
         calls = <<>> /\ ~results.success /\ ~results.error.none
    /\ (LocationExtracted /\ ~CoordsResolved) => calls = <<"geocode">>
    /\ CoordsResolved => calls = <<"geocode">> \o FetchesWanted


AllRetryable == \A i \in 1..Len(outcomes) : outcomes[i] \in Retryable

MessageOfKind(kind) ==
  IF kind = "timeout" THEN TimeoutMessage ELSE ConnectionMessage

\* What C14 says of a call that has returned
EnvelopeAtReturn ==
  envelope.returned =>
    LET n == Len(outcomes)
    IN  /\ envelope.success => "data" \in DOMAIN envelope
        /\ ~envelope.success => "error" \in DOMAIN envelope
        /\ (n > 0 /\ AllRetryable) =>
             /\ n = req.max_retries
             /\ Len(sleeps) = n - 1
             /\ envelope = Failure(MessageOfKind(outcomes[n]))
        /\ envelope = Failure(MaxRetriesMessage) => req.max_retries <= 0
        /\ req.max_retries <= 0 =>
             /\ n = 0
             /\ sleeps = <<>>
             /\ envelope = Failure(MaxRetriesMessage)

\* C14: make_api_request always terminates with a success or error envelope;
\* when all max_retries attempts end in a timeout or a connection failure,
\* exactly max_retries attempts are made, no wait follows the last one, and
\* the error is the message of the last attempt's failure kind; the message
\* 'Maximum retry attempts reached' is returned only when max_retries <= 0,
\* and then no request is issued.
C14_TerminatesWithEnvelope ==
  /\ <>envelope.returned
  /\ []EnvelopeAtReturn

\* C14 witness: three attempts, the last a connection failure, two waits
C14_LastKindDecides ==
  /\ pc = "call"
  /\ req.max_retries = 3
  /\ outcomes = <<"timeout", "timeout", "connection">>
  /\ sleeps = <<1, 2>>
  /\ envelope = Failure(ConnectionMessage)

====
